---- MODULE Spec2Model ----
(***************************************************************************)
(* bonsai: a compiler for one arithmetic expression.                       *)
(*   parser.rs  source text -> AST arena (peg precedence climbing)         *)
(*   irgen.rs   AST arena   -> IR arena  (syntax-directed lowering)        *)
(*   codegen.rs IR arena    -> LLVM module: main evaluates and prints      *)
(*   driver.rs  read, parse, lower, codegen, write object, link            *)
(*   bonsaic.rs the command line                                           *)
(*                                                                         *)
(* A source text is a sequence of one-character strings.  An i64 is a      *)
(* little-endian sequence of I64Bytes bytes (0..255): TLC's integers are   *)
(* 32 bits wide, so 64-bit two's-complement arithmetic is carried out      *)
(* byte by byte.                                                           *)
(***************************************************************************)
EXTENDS Integers, Sequences, FiniteSets, TLC

\* ------------------------------------------------------------------ bounds
\* longest source text drawn character by character
MaxLen == 4
\* most tokens of a generated well-formed expression
MaxTokens == 7

\* ------------------------------------------------------- 64-bit arithmetic
\* ast.rs: IntLit(i64); ir.rs: IntValue(i64)
I64Bytes == 8
\* the C int that printf's %d reads
IntBytes == 4

\* v handed to F as a value: TLC computes v once, however often F uses it
Let(v, F(_)) == CHOOSE out \in {F(x) : x \in {v}} : TRUE

Let2(v, w, F(_, _)) == CHOOSE out \in {F(x, y) : x \in {v}, y \in {w}} : TRUE

\* a function over 1..n as a tuple, its elements computed once
Tup(f) == f \o <<>>

Zero(n) == Tup([i \in 1..n |-> 0])

One(n) == Tup([i \in 1..n |-> IF i = 1 THEN 1 ELSE 0])

IsZero(a) == \A i \in 1..Len(a) : a[i] = 0

IsNeg(a) == a[Len(a)] >= 128

Not(a) == Let(a, LAMBDA x : Tup([i \in 1..Len(x) |-> 255 - x[i]]))

RECURSIVE AddBytes(_, _, _, _)
\* bytes i.. of a + b + c, the carry out of the top byte dropped
AddBytes(a, b, i, c) ==
  IF i > Len(a) THEN <<>>
  ELSE Let(a[i] + b[i] + c,
           LAMBDA s : <<s % 256>> \o AddBytes(a, b, i + 1, s \div 256))

\* a + b + c modulo 2^(8 * Len(a)), c the carry in
Add3(a, b, c) == Let2(a, b, LAMBDA x, y : AddBytes(x, y, 1, c))

\* two's-complement negation
Neg(a) == Add3(Not(a), Zero(Len(a)), 1)

\* LLVM add: wraps modulo 2^64
IAdd(a, b) == Add3(a, b, 0)

\* LLVM sub: wraps modulo 2^64
ISub(a, b) == Add3(a, Not(b), 1)

RECURSIVE SumProd(_, _, _, _)
\* sum of a[i] * b[k + 1 - i] for i in 1..k, from i upward
SumProd(a, b, k, i) ==
  IF i > k THEN 0 ELSE a[i] * b[k + 1 - i] + SumProd(a, b, k, i + 1)

RECURSIVE MulBytes(_, _, _, _)
\* bytes k.. of a * b, c the carry into byte k
MulBytes(a, b, k, c) ==
  IF k > Len(a) THEN <<>>
  ELSE Let(c + SumProd(a, b, k, 1),
           LAMBDA s : <<s % 256>> \o MulBytes(a, b, k + 1, s \div 256))

\* LLVM mul: wraps modulo 2^64
IMul(a, b) == Let2(a, b, LAMBDA x, y : MulBytes(x, y, 1, 0))

RECURSIVE ULt(_, _, _)
\* unsigned a < b, compared from byte i downward
ULt(a, b, i) ==
  IF i = 0 THEN FALSE
  ELSE IF a[i] # b[i] THEN a[i] < b[i]
  ELSE ULt(a, b, i - 1)

\* a shifted left by one bit, `bit` shifted in: a + a + bit
Shl1(a, bit) == Add3(a, a, bit)

\* bit k of a, k counted from 0 at the least significant bit
Bit(a, k) == (a[(k \div 8) + 1] \div (2 ^ (k % 8))) % 2

\* one step of shift-and-subtract division at bit k: st is [q, r]
DivStep(a, b, k, st) ==
  Let(Shl1(st.r, Bit(a, k)),
      LAMBDA r1 : IF ULt(r1, b, Len(a))
                  THEN [q |-> Shl1(st.q, 0), r |-> r1]
                  ELSE [q |-> Shl1(st.q, 1), r |-> ISub(r1, b)])

RECURSIVE UDivRange(_, _, _, _, _)
\* the steps for bits hi down to lo, the upper half of them first
UDivRange(a, b, hi, lo, st) ==
  IF hi = lo THEN DivStep(a, b, hi, st)
  ELSE Let2(UDivRange(a, b, hi, (hi + lo) \div 2 + 1, st), (hi + lo) \div 2,
            LAMBDA s1, mid : UDivRange(a, b, mid, lo, s1))

\* the unsigned quotient of a by b, b nonzero
UDiv(a, b) ==
  Let2(a, b, LAMBDA x, y :
    UDivRange(x, y, 8 * Len(x) - 1, 0, [q |-> Zero(Len(x)), r |-> Zero(Len(x))]).q)

Abs64(a) == IF IsNeg(a) THEN Neg(a) ELSE a

MinI64(n) == Tup([i \in 1..n |-> IF i = n THEN 128 ELSE 0])

\* LLVM sdiv is undefined for a zero divisor and for MIN / -1
SDivUndefined(a, b) ==
  IsZero(b) \/ (a = MinI64(Len(a)) /\ b = Not(Zero(Len(b))))

\* a quotient rounded toward minus infinity, as a division that is not sdiv would
SDivFloor(a, b) ==
  Let(UDiv(Abs64(a), Abs64(b)),
      LAMBDA q : IF IsNeg(a) = IsNeg(b) THEN q
                 ELSE IF IMul(q, Abs64(b)) = Abs64(a) THEN Neg(q)
                 ELSE ISub(Neg(q), One(Len(a))))

\* LLVM sdiv: the quotient rounded toward zero
SDiv(a, b) ==
  Let(UDiv(Abs64(a), Abs64(b)),
      LAMBDA q : IF IsNeg(a) = IsNeg(b) THEN q ELSE Neg(q))

\* ------------------------------------------------------------ decimal text
DigitChars == <<"0", "1", "2", "3", "4", "5", "6", "7", "8", "9">>

IsDigit(c) == \E d \in 1..10 : DigitChars[d] = c

DigitVal(c) == (CHOOSE d \in 1..10 : DigitChars[d] = c) - 1

RECURSIVE MulAddSmall(_, _, _, _)
\* a * m + c for small m and c: the bytes from i upward, then the carry out
MulAddSmall(a, m, i, c) ==
  IF i > Len(a) THEN <<c>>
  ELSE Let(a[i] * m + c,
           LAMBDA s : <<s % 256>> \o MulAddSmall(a, m, i + 1, s \div 256))

RECURSIVE ParseAcc(_, _, _)
\* core::num: result = result.checked_mul(10)?.checked_add(digit)?
ParseAcc(ds, i, acc) ==
  IF i > Len(ds) THEN [ok |-> TRUE, val |-> acc]
  ELSE Let2(MulAddSmall(acc, 10, 1, DigitVal(ds[i])), i + 1,
            LAMBDA r, j : IF r[Len(r)] > 0 \/ r[Len(r) - 1] >= 128
                          THEN [ok |-> FALSE, val |-> acc]
                          ELSE ParseAcc(ds, j, SubSeq(r, 1, Len(r) - 1)))

\* str::parse::<i64> of a run of digits: Err(PosOverflow) above i64::MAX
ParseI64(ds) == Let(ds, LAMBDA d : ParseAcc(d, 1, Zero(I64Bytes)))

RECURSIVE DivBytes10(_, _, _)
\* a divided by 10 from byte i downward, r the remainder carried in: the
\* quotient's bytes from the top one downward, then the remainder
DivBytes10(a, i, r) ==
  IF i = 0 THEN <<r>>
  ELSE Let(r * 256 + a[i],
           LAMBDA cur : <<cur \div 10>> \o DivBytes10(a, i - 1, cur % 10))

RECURSIVE DecDigits(_)
\* the decimal digits of an unsigned value, none for zero
DecDigits(a) ==
  IF IsZero(a) THEN <<>>
  ELSE Let(DivBytes10(a, Len(a), 0),
           LAMBDA d : Let(Tup([j \in 1..Len(a) |-> d[Len(a) + 1 - j]]),
                          LAMBDA q : DecDigits(q) \o <<DigitChars[d[Len(d)] + 1]>>))

\* the decimal text of a signed two's-complement value of any width
DecS(a) ==
  Let(a, LAMBDA x : IF IsZero(x) THEN <<"0">>
                    ELSE IF IsNeg(x) THEN <<"-">> \o DecDigits(Neg(x))
                    ELSE DecDigits(x))

\* ------------------------------------------------------------------ parser
\* ast.rs: NodeKind::Lit(LitKind::IntLit(i64))
Lit(v) == [kind |-> "Lit", value |-> v]

\* ast.rs: NodeKind::Paren(Id)
Paren(e) == [kind |-> "Paren", inner |-> e]

\* ast.rs: NodeKind::BiOp(BiOpKind, Id, Id)
BiOp(op, x, y) == [kind |-> "BiOp", op |-> op, lhs |-> x, rhs |-> y]

\* id_arena::Arena::alloc: the node goes to the end, its id is its index
Alloc(arena, node) == [arena |-> Append(arena, node), id |-> Len(arena) + 1]

\* a rule's outcome: matched up to pos with value val, failed, or panicked;
\* arena is the context's arena afterwards (allocations are never undone)
Matched(pos, val, arena) == [st |-> "ok", pos |-> pos, val |-> val, arena |-> arena]

Failed(arena) == [st |-> "fail", pos |-> 0, val |-> 0, arena |-> arena]

Panicked(arena) == [st |-> "panic", pos |-> 0, val |-> 0, arena |-> arena]

IsSpace(c) == c \in {" ", "\t", "\r", "\n"}

RECURSIVE Skip(_, _)
\* rule _() = [' '|'\t'|'\r'|'\n']*: the position after the white space at pos
Skip(src, pos) ==
  IF pos <= Len(src) /\ IsSpace(src[pos]) THEN Skip(src, pos + 1) ELSE pos

RECURSIVE DigitsEnd(_, _)
\* ['0' ..= '9']+ is greedy: the position after the digits at pos
DigitsEnd(src, pos) ==
  IF pos <= Len(src) /\ IsDigit(src[pos]) THEN DigitsEnd(src, pos + 1) ELSE pos

\* a literal character after optional white space, _ "c": the position after
\* it, 0 when it is not there
Literal(src, pos, c) ==
  Let(Skip(src, pos), LAMBDA p : IF p <= Len(src) /\ src[p] = c THEN p + 1 ELSE 0)

\* rule int_lit: _ n:$(['0' ..= '9']+) { Lit(IntLit(n.parse().unwrap())) }
int_lit(src, pos, arena) ==
  Let(Skip(src, pos), LAMBDA p :
    Let(DigitsEnd(src, p), LAMBDA e :
      IF e = p THEN Failed(arena)
      ELSE Let(ParseI64(SubSeq(src, p, e - 1)), LAMBDA n :
             IF n.ok THEN Matched(e, Lit(n.val), arena) ELSE Panicked(arena))))

\* the levels with + - binding tighter than * /
InfixOpsSwapped ==
  << [c |-> "*", op |-> "Mul", level |-> 0],
     [c |-> "/", op |-> "Div", level |-> 0],
     [c |-> "+", op |-> "Add", level |-> 1],
     [c |-> "-", op |-> "Sub", level |-> 1] >>

\* the infix operators of precedence!, in the order the levels list them
InfixOps ==
  << [c |-> "+", op |-> "Add", level |-> 0],
     [c |-> "-", op |-> "Sub", level |-> 0],
     [c |-> "*", op |-> "Mul", level |-> 1],
     [c |-> "/", op |-> "Div", level |-> 1] >>

\* x:(@) op y:@ would be x:@ op y:(@): the right operand at the same level
RhsMinPrecRight(level) == level

\* x:(@) op y:@ is left-associative: the right operand is parsed one level up
RhsMinPrec(level) == level + 1

\* _:position!() p:@ _:position!() { arena.alloc(Node { kind: p }) }
Wrap(pos, kind, arena) ==
  Let(Alloc(arena, kind), LAMBDA a : Matched(pos, a.id, a.arena))

RECURSIVE infix_parse(_, _, _, _)
RECURSIVE infix_loop(_, _, _, _, _)
RECURSIVE level_code(_, _, _, _, _, _)
RECURSIVE prefix_atom(_, _, _)

\* rule expr() = precedence!{...}: precedence climbing from level 0
expr(src, pos, arena) == infix_parse(src, 0, pos, arena)

\* _ "(" e:expr() _ ")" { Paren(e) }, the "(" matched and open the position
\* after it
paren_atom(src, open, arena) ==
  Let(expr(src, open, arena), LAMBDA e :
    IF e.st # "ok" THEN e
    ELSE Let(Literal(src, e.pos, ")"), LAMBDA close :
           IF close = 0 THEN Failed(e.arena)
           ELSE Wrap(close, Paren(e.val), e.arena)))

\* the atoms: n:int_lit() { n }, then _ "(" e:expr() _ ")" { Paren(e) }
prefix_atom(src, pos, arena) ==
  Let2(int_lit(src, pos, arena), Literal(src, pos, "("), LAMBDA n, open :
    IF n.st = "ok" THEN Wrap(n.pos, n.val, n.arena)
    ELSE IF n.st = "panic" THEN n
    ELSE IF open = 0 THEN Failed(arena)
    ELSE paren_atom(src, open, arena))

\* the operators from the k-th on, tried in order at pos with left operand x:
\* an operator of a level below min_prec is skipped; one whose right operand
\* fails is given up and the next is tried
level_code(src, pos, min_prec, x, arena, k) ==
  IF k > Len(InfixOps) THEN Failed(arena)
  ELSE Let2(InfixOps[k], Literal(src, pos, InfixOps[k].c), LAMBDA o, after :
         IF o.level < min_prec \/ after = 0
         THEN level_code(src, pos, min_prec, x, arena, k + 1)
         ELSE Let(infix_parse(src, RhsMinPrec(o.level), after, arena), LAMBDA y :
                IF y.st = "ok" THEN Wrap(y.pos, BiOp(o.op, x, y.val), y.arena)
                ELSE IF y.st = "panic" THEN y
                ELSE level_code(src, pos, min_prec, x, y.arena, k + 1)))

\* repeat: fold one more operator onto x, until none matches
infix_loop(src, min_prec, pos, x, arena) ==
  Let(level_code(src, pos, min_prec, x, arena, 1), LAMBDA r :
    IF r.st = "ok" THEN infix_loop(src, min_prec, r.pos, r.val, r.arena)
    ELSE IF r.st = "panic" THEN r
    ELSE Matched(pos, x, r.arena))

\* an atom, then the operators of level min_prec and above
infix_parse(src, min_prec, lpos, arena) ==
  Let(prefix_atom(src, lpos, arena), LAMBDA initial :
    IF initial.st = "ok"
    THEN infix_loop(src, min_prec, initial.pos, initial.val, initial.arena)
    ELSE initial)

\* pub rule parse() = n:expr() _ { n }: the whole input must be consumed
rule_parse(src, arena) ==
  Let(expr(src, 1, arena), LAMBDA n :
    IF n.st = "ok" /\ Skip(src, n.pos) # Len(src) + 1 THEN Failed(n.arena) ELSE n)

\* parser::parse: Ok((arena, root)), Err(failed to parse), or the panic of unwrap
parse(source) ==
  Let(rule_parse(source, <<>>), LAMBDA r :
    IF r.st = "ok" THEN [st |-> "ok", arena |-> r.arena, root |-> r.val]
    ELSE [st |-> r.st, arena |-> <<>>, root |-> 0])

\* ------------------------------------------------------------------- irgen
\* ir.rs: Kind::IntValue(i64)
IntValue(v) == [kind |-> "IntValue", value |-> v]

\* ir.rs: Kind::Op(OpKind, Vec<Id>)
Op(op, args) == [kind |-> "Op", op |-> op, args |-> args]

\* IrGen::map_biop_kind
map_biop_kind(kind) ==
  CASE kind = "Add" -> "IAdd"
    [] kind = "Sub" -> "ISub"
    [] kind = "Mul" -> "IMul"
    [] kind = "Div" -> "IDiv"

IrOk(ir_arena, id) == [ok |-> TRUE, arena |-> ir_arena, id |-> id]

IrErr(ir_arena) == [ok |-> FALSE, arena |-> ir_arena, id |-> 0]

\* IrGen::new_node
new_node(ir_arena, kind) ==
  Let(Alloc(ir_arena, kind), LAMBDA a : IrOk(a.arena, a.id))

\* let args = vec![lhs, rhs] with the operands the other way round
OpArgsSwapped(lhs, rhs) == <<rhs, lhs>>

\* let args = vec![lhs, rhs]
OpArgs(lhs, rhs) == <<lhs, rhs>>

RECURSIVE generate_impl_paren_node(_, _, _)
\* generate_impl with a Paren arm that allocates a node of its own
generate_impl_paren_node(ast_arena, ir_arena, root) ==
  IF root \notin 1..Len(ast_arena) THEN IrErr(ir_arena)
  ELSE Let(ast_arena[root], LAMBDA node :
    CASE node.kind = "Lit" -> new_node(ir_arena, IntValue(node.value))
      [] node.kind = "Paren" ->
           Let(generate_impl_paren_node(ast_arena, ir_arena, node.inner), LAMBDA e :
             IF e.ok THEN new_node(e.arena, e.arena[e.id]) ELSE e)
      [] node.kind = "BiOp" ->
           Let(generate_impl_paren_node(ast_arena, ir_arena, node.lhs), LAMBDA lhs :
             IF ~lhs.ok THEN lhs
             ELSE Let(generate_impl_paren_node(ast_arena, lhs.arena, node.rhs), LAMBDA rhs :
                    IF ~rhs.ok THEN rhs
                    ELSE new_node(rhs.arena,
                                  Op(map_biop_kind(node.op), OpArgs(lhs.id, rhs.id))))))

RECURSIVE generate_impl(_, _, _)
\* IrGen::generate_impl: the IR arena afterwards and the id of root's IR node
generate_impl(ast_arena, ir_arena, root) ==
  IF root \notin 1..Len(ast_arena) THEN IrErr(ir_arena)
  ELSE Let(ast_arena[root], LAMBDA node :
    CASE node.kind = "Lit" -> new_node(ir_arena, IntValue(node.value))
      [] node.kind = "Paren" -> generate_impl(ast_arena, ir_arena, node.inner)
      [] node.kind = "BiOp" ->
           Let(generate_impl(ast_arena, ir_arena, node.lhs), LAMBDA lhs :
             IF ~lhs.ok THEN lhs
             ELSE Let(generate_impl(ast_arena, lhs.arena, node.rhs), LAMBDA rhs :
                    IF ~rhs.ok THEN rhs
                    ELSE new_node(rhs.arena,
                                  Op(map_biop_kind(node.op), OpArgs(lhs.id, rhs.id))))))

\* irgen::generate
generate(ast_arena, root) == generate_impl(ast_arena, <<>>, root)

\* ----------------------------------------------------------------- codegen
CgOk(v) == [st |-> "ok", val |-> v]

\* an operation whose result LLVM leaves undefined
CgUndef == [st |-> "undef", val |-> Zero(I64Bytes)]

\* Err(failed to get ir from arena)
CgErr == [st |-> "err", val |-> Zero(I64Bytes)]

\* build_int_signed_div would be a division that rounds toward minus infinity
build_int_floor_div(a, b) ==
  IF SDivUndefined(a, b) THEN CgUndef ELSE CgOk(SDivFloor(a, b))

\* build_int_signed_div: sdiv
build_int_signed_div(a, b) ==
  IF SDivUndefined(a, b) THEN CgUndef ELSE CgOk(SDiv(a, b))

RECURSIVE cg_generate_impl(_, _)
\* CodeGen::generate_impl: the i64 the instructions built for node id compute
cg_generate_impl(ir_arena, id) ==
  IF id \notin 1..Len(ir_arena) THEN CgErr
  ELSE Let(ir_arena[id], LAMBDA node :
    IF node.kind = "IntValue" THEN CgOk(node.value)
    ELSE Let2(cg_generate_impl(ir_arena, node.args[1]),
              cg_generate_impl(ir_arena, node.args[2]), LAMBDA a, b :
           IF a.st = "err" THEN a
           ELSE IF b.st = "err" THEN b
           ELSE IF a.st = "undef" \/ b.st = "undef" THEN CgUndef
           ELSE CASE node.op = "IAdd" -> CgOk(IAdd(a.val, b.val))
                  [] node.op = "ISub" -> CgOk(ISub(a.val, b.val))
                  [] node.op = "IMul" -> CgOk(IMul(a.val, b.val))
                  [] node.op = "IDiv" -> build_int_signed_div(a.val, b.val)))

\* printf("result: %d\n", v) with v an i64: %d reads a C int from the variadic
\* argument, which the C standard leaves undefined for a 64-bit argument.  The
\* word read is the low half where the i64 travels in a register or little-endian
\* stack slot, the high half in a big-endian one.
PrintfWords(v) == {SubSeq(v, 1, IntBytes), SubSeq(v, IntBytes + 1, I64Bytes)}

\* the text print_int writes for the word printf reads
PrintInt(word) == <<"result: ">> \o DecS(word) \o <<"\n">>

\* values an undefined sdiv may leave in its result
UndefValues == {Zero(I64Bytes), Not(Zero(I64Bytes)), MinI64(I64Bytes)}

\* ------------------------------------------------------------------ inputs
\* the characters short source texts are drawn from
Alphabet == {"7", "+", "-", "*", "/", "(", ")", " "}

\* every text of at most MaxLen characters: mostly malformed ones
CharSources == UNION {{Tup(f) : f \in [1..k -> Alphabet]} : k \in 0..MaxLen}

SmallLits == {<<"2">>, <<"7">>}

AddOps == {"+", "-"}

MulOps == {"*", "/"}

RECURSIVE FactorsOf(_)
RECURSIVE TermsOf(_)
RECURSIVE ExprsOf(_)
\* factor := INTEGER | "(" expr ")", the texts of exactly n tokens
FactorsOf(n) ==
  (IF n = 1 THEN SmallLits ELSE {})
    \cup (IF n >= 3 THEN {<<"(">> \o e \o <<")">> : e \in ExprsOf(n - 2)} ELSE {})

\* term := factor (("*" | "/") factor)*
TermsOf(n) ==
  FactorsOf(n) \cup
    UNION {{t \o <<o>> \o f : t \in TermsOf(i), o \in MulOps, f \in FactorsOf(n - 1 - i)} :
           i \in 1..(n - 2)}

\* expr := term (("+" | "-") term)*
ExprsOf(n) ==
  TermsOf(n) \cup
    UNION {{e \o <<o>> \o t : e \in ExprsOf(i), o \in AddOps, t \in TermsOf(n - 1 - i)} :
           i \in 1..(n - 2)}

\* every well-formed expression of at most MaxTokens tokens over SmallLits
ExprSources == UNION {ExprsOf(n) : n \in 1..MaxTokens}

\* literals around the edges of 32 and 64 bits
BigLits ==
  { <<"0">>, <<"7">>,
    <<"3", "0", "0", "0", "0", "0", "0", "0", "0", "0">>,
    <<"2", "1", "4", "7", "4", "8", "3", "6", "4", "7">>,
    <<"9", "2", "2", "3", "3", "7", "2", "0", "3", "6", "8", "5", "4", "7", "7", "5", "8", "0", "7">>,
    <<"9", "2", "2", "3", "3", "7", "2", "0", "3", "6", "8", "5", "4", "7", "7", "5", "8", "0", "8">>,
    <<"9", "9", "9", "9", "9", "9", "9", "9", "9", "9", "9", "9", "9", "9", "9", "9", "9", "9", "9", "9">> }

\* a literal alone, two literals around an operator, an operator with no right
\* operand, and a leading minus sign
NumSources ==
  BigLits
    \cup {a \o <<o>> \o b : a \in BigLits, o \in AddOps \cup MulOps, b \in BigLits}
    \cup {a \o <<o>> : a \in BigLits, o \in AddOps \cup MulOps}
    \cup {<<"-">> \o a \o <<"/">> \o b : a \in BigLits, b \in BigLits}

\* the source of driver.rs's test, and the texts the documentation names
ExampleSources ==
  { <<"\n", " ", " ", " ", " ", " ", " ", " ", " ", "6", " ", "*", " ", "7", "\n", " ", " ", " ", " ", " ", " ", " ", " ">>,
    <<"1", "+", "2", "*", "3">>,
    <<"1", "0", "-", "2", "-", "3">>,
    <<"6", "*", "7">>,
    <<"(", "(", "(", "6", "*", "7", ")", ")", ")">>,
    <<"(", "1", "+", "2", ")", "*", "3">>,
    <<"7", "/", "2">>,
    <<"-", "7", "/", "2">>,
    <<"(", "0", "-", "7", ")", "/", "2">>,
    <<"1", "+">>,
    <<"(", "1">>,
    <<"1", "+", "a">>,
    <<"(", "0", "-", "9", "2", "2", "3", "3", "7", "2", "0", "3", "6", "8", "5", "4", "7", "7", "5", "8", "0", "7", "-", "1", ")", "/", "(", "0", "-", "1", ")">> }

Sources == CharSources \cup ExprSources \cup NumSources \cup ExampleSources

\* ------------------------------------------------------------- the process
VARIABLES
  pc,        \* where bonsaic's main is: the next stage, "report", or an end
  argc,      \* std::env::args().len()
  source,    \* what read_file returned
  ast,       \* what parser::parse returned: [arena, root], root 0 when nothing
  ir,        \* what irgen::generate returned: [arena, root]
  module,    \* the LLVM module: what its main computes
  started,   \* the stages entered so far, in order
  result,    \* what driver::compile returned: [kind, stage]
  objFile,   \* the object file is on disk
  linkerRan, \* the linker subprocess was spawned
  exeFile,   \* the executable is on disk
  stdout,    \* bonsaic's standard output
  stderr,    \* bonsaic's standard error
  exitCode,  \* bonsaic's exit status, -1 while it runs
  prog       \* a run of the executable: [ran, crashed, value, stdout, exit]

vars ==
  <<pc, argc, source, ast, ir, module, started, result, objFile, linkerRan,
    exeFile, stdout, stderr, exitCode, prog>>

NoTree == [arena |-> <<>>, root |-> 0]

NoModule == [built |-> FALSE, main |-> CgErr]

NoResult == [kind |-> "none", stage |-> "none"]

Ok == [kind |-> "ok", stage |-> "none"]

Err(stage) == [kind |-> "err", stage |-> stage]

NoRun ==
  [ran |-> FALSE, crashed |-> FALSE, value |-> Zero(I64Bytes), stdout |-> <<>>,
   exit |-> 0]

\* the status of a process that panicked
PanicExit == 101

Init ==
  /\ pc = "main"
  /\ argc \in {1, 2}
  /\ source = <<>>
  /\ ast = NoTree
  /\ ir = NoTree
  /\ module = NoModule
  /\ started = <<>>
  /\ result = NoResult
  /\ objFile = FALSE
  /\ linkerRan = FALSE
  /\ exeFile = FALSE
  /\ stdout = <<>>
  /\ stderr = <<>>
  /\ exitCode = -1
  /\ prog = NoRun

\* main: if args.len() < 2 { eprintln!(...); exit(1) }
MainNoArgs ==
  /\ pc = "main"
  /\ argc < 2
  /\ stderr' = Append(stderr, "please specify input file")
  /\ exitCode' = 1
  /\ pc' = "exited"
  /\ UNCHANGED <<argc, source, ast, ir, module, started, result, objFile,
                 linkerRan, exeFile, stdout, prog>>

\* compile: let src = read_file(source)?
ReadFile ==
  /\ pc = "main"
  /\ argc >= 2
  /\ started' = Append(started, "read")
  /\ \/ /\ result' = Err("read")
        /\ pc' = "report"
        /\ UNCHANGED source
     \/ /\ \E s \in Sources : source' = s
        /\ pc' = "parse"
        /\ UNCHANGED result
  /\ UNCHANGED <<argc, ast, ir, module, objFile, linkerRan, exeFile, stdout,
                 stderr, exitCode, prog>>

\* generate_object_from_string: a parse error would be dropped and an empty
\* tree handed on
ParseKeepGoing ==
  /\ pc = "parse"
  /\ started' = Append(started, "parse")
  /\ LET r == parse(source)
     IN /\ ast' = [arena |-> r.arena, root |-> r.root]
        /\ pc' = "generate"
        /\ UNCHANGED <<result, exitCode>>
  /\ UNCHANGED <<argc, source, ir, module, objFile, linkerRan, exeFile, stdout,
                 stderr, prog>>

\* generate_object_from_string: let (ast_arena, ast_root) = parser::parse(source)?
Parse ==
  /\ pc = "parse"
  /\ started' = Append(started, "parse")
  /\ LET r == parse(source)
     IN CASE r.st = "ok" ->
               /\ ast' = [arena |-> r.arena, root |-> r.root]
               /\ pc' = "generate"
               /\ UNCHANGED <<result, exitCode>>
          [] r.st = "fail" ->
               /\ result' = Err("parse")
               /\ pc' = "report"
               /\ UNCHANGED <<ast, exitCode>>
          [] r.st = "panic" ->
               /\ pc' = "panicked"
               /\ exitCode' = PanicExit
               /\ UNCHANGED <<ast, result>>
  /\ UNCHANGED <<argc, source, ir, module, objFile, linkerRan, exeFile, stdout,
                 stderr, prog>>

\* let (ir_arena, ir_root) = irgen::generate(ast_arena, ast_root)?
Generate ==
  /\ pc = "generate"
  /\ started' = Append(started, "lower")
  /\ LET r == generate(ast.arena, ast.root)
     IN IF r.ok
        THEN /\ ir' = [arena |-> r.arena, root |-> r.id]
             /\ pc' = "codegen"
             /\ UNCHANGED result
        ELSE /\ result' = Err("lower")
             /\ pc' = "report"
             /\ UNCHANGED ir
  /\ UNCHANGED <<argc, source, ast, module, objFile, linkerRan, exeFile, stdout,
                 stderr, exitCode, prog>>

\* get_host_target_machine()?; CodeGen::new; codegen.generate(ir_root)?
Codegen ==
  /\ pc = "codegen"
  /\ started' = Append(started, "codegen")
  /\ \E targetOk \in BOOLEAN :
       LET v == cg_generate_impl(ir.arena, ir.root)
       IN IF targetOk /\ v.st # "err"
          THEN /\ module' = [built |-> TRUE, main |-> v]
               /\ pc' = "write"
               /\ UNCHANGED result
          ELSE /\ result' = Err("codegen")
               /\ pc' = "report"
               /\ UNCHANGED module
  /\ UNCHANGED <<argc, source, ast, ir, objFile, linkerRan, exeFile, stdout,
                 stderr, exitCode, prog>>

\* out_dir.unwrap_or(std::env::current_dir()?); codegen.write_to_file(..)?:
\* the current directory is looked up even when out_dir is given, the module
\* is verified, the object file written
WriteObject ==
  /\ pc = "write"
  /\ started' = Append(started, "write")
  /\ \E cwdOk \in BOOLEAN, verifyOk \in BOOLEAN, writeOk \in BOOLEAN :
       IF cwdOk /\ verifyOk /\ writeOk
       THEN /\ objFile' = TRUE
            /\ pc' = "link"
            /\ UNCHANGED result
       ELSE /\ result' = Err("write")
            /\ pc' = "report"
            /\ UNCHANGED objFile
  /\ UNCHANGED <<argc, source, ast, ir, module, linkerRan, exeFile, stdout,
                 stderr, exitCode, prog>>

\* how the linker subprocess can end
LinkOutcomes == {"spawn failed", "stderr not utf-8", "killed", "nonzero", "zero"}

\* compile: let exe = execute_linker(obj.as_path())?; Ok(exe)
Link ==
  /\ pc = "link"
  /\ started' = Append(started, "link")
  /\ \E o \in LinkOutcomes :
       /\ linkerRan' = (o # "spawn failed")
       /\ exeFile' = (o = "zero")
       /\ result' = IF o = "zero" THEN Ok ELSE Err("link")
  /\ pc' = "report"
  /\ UNCHANGED <<argc, source, ast, ir, module, objFile, stdout, stderr,
                 exitCode, prog>>

\* main: match driver::compile(source) { Ok(v) => println!, Err(v) => eprintln! }
\* and main returns
Report ==
  /\ pc = "report"
  /\ IF result.kind = "ok"
     THEN /\ stdout' = Append(stdout, "successfully compiled to <exe>")
          /\ UNCHANGED stderr
     ELSE /\ stderr' = Append(stderr, "failed to compile:\n<" \o result.stage \o ">")
          /\ UNCHANGED stdout
  /\ exitCode' = 0
  /\ pc' = "exited"
  /\ UNCHANGED <<argc, source, ast, ir, module, started, result, objFile,
                 linkerRan, exeFile, prog>>

\* the outcome of running the executable whose main computes v and prints word
Ran(v, word) ==
  [ran |-> TRUE, crashed |-> FALSE, value |-> v, stdout |-> PrintInt(word),
   exit |-> v[1]]

\* the executable is run (driver.rs tests: Command::new(exe).output()): main
\* computes the value, calls print_int on it and returns it
RunExecutable ==
  /\ pc = "exited"
  /\ exeFile
  /\ ~prog.ran
  /\ IF module.main.st = "ok"
     THEN \E w \in PrintfWords(module.main.val) : prog' = Ran(module.main.val, w)
     ELSE \/ prog' = [NoRun EXCEPT !.ran = TRUE, !.crashed = TRUE]
          \/ \E v \in UndefValues : \E w \in PrintfWords(v) : prog' = Ran(v, w)
  /\ UNCHANGED <<pc, argc, source, ast, ir, module, started, result, objFile,
                 linkerRan, exeFile, stdout, stderr, exitCode>>

Next ==
  \/ MainNoArgs
  \/ ReadFile
  \/ Parse
  \/ Generate
  \/ Codegen
  \/ WriteObject
  \/ Link
  \/ Report
  \/ RunExecutable

Spec == Init /\ [][Next]_vars

\* ------------------------------------------------- what the claims speak of
\* the tokens of a text: runs of digits and single characters, white space
\* between them dropped
RECURSIVE Lex(_, _)
Lex(src, i) ==
  IF i > Len(src) THEN <<>>
  ELSE IF IsSpace(src[i]) THEN Lex(src, i + 1)
  ELSE IF IsDigit(src[i])
       THEN Let(DigitsEnd(src, i), LAMBDA e : <<SubSeq(src, i, e - 1)>> \o Lex(src, e))
  ELSE <<(<<src[i]>>)>> \o Lex(src, i + 1)

Tokens(src) == Lex(src, 1)

\* "n" for an INTEGER, the character itself otherwise
TokKind(tok) == IF IsDigit(tok[1]) THEN "n" ELSE tok[1]

Kinds(src) == Let(Tokens(src), LAMBDA ts : Tup([i \in 1..Len(ts) |-> TokKind(ts[i])]))

RECURSIVE IsFactor(_, _, _)
RECURSIVE IsTerm(_, _, _)
RECURSIVE IsExpr(_, _, _)
\* factor := INTEGER | "(" expr ")", of the token kinds k[lo..hi]
IsFactor(k, lo, hi) ==
  \/ lo = hi /\ k[lo] = "n"
  \/ hi - lo >= 2 /\ k[lo] = "(" /\ k[hi] = ")" /\ IsExpr(k, lo + 1, hi - 1)

\* term := factor (("*" | "/") factor)*
IsTerm(k, lo, hi) ==
  \/ IsFactor(k, lo, hi)
  \/ \E m \in (lo + 1)..(hi - 1) :
       k[m] \in MulOps /\ IsFactor(k, m + 1, hi) /\ IsTerm(k, lo, m - 1)

\* expr := term (("+" | "-") term)*
IsExpr(k, lo, hi) ==
  \/ IsTerm(k, lo, hi)
  \/ \E m \in (lo + 1)..(hi - 1) :
       k[m] \in AddOps /\ IsTerm(k, m + 1, hi) /\ IsExpr(k, lo, m - 1)

\* the text matches the grammar
InGrammar(src) == Let(Kinds(src), LAMBDA k : Len(k) >= 1 /\ IsExpr(k, 1, Len(k)))

\* parse has been called and is over
ParseDone == Len(started) >= 2

\* parse returned a tree
Parsed == ast.root # 0

\* generate returned an IR
Lowered == ir.root # 0

\* the executable ran and its main computed a defined value
Additive == {"Add", "Sub"}

Multiplicative == {"Mul", "Div"}

LevelOf(op) == IF op \in Additive THEN 0 ELSE 1

\* the operator a token stands for
OpOf(c) ==
  CASE c = "+" -> "Add" [] c = "-" -> "Sub" [] c = "*" -> "Mul" [] c = "/" -> "Div"

IsBiOp(arena, id) == arena[id].kind = "BiOp"

\* the i64 n, for n in 0..255
Small(n) == Tup([i \in 1..I64Bytes |-> IF i = 1 THEN n ELSE 0])

RECURSIVE AstTree(_, _)
\* the tree below node id, as nested records
AstTree(arena, id) ==
  Let(arena[id], LAMBDA n :
    CASE n.kind = "Lit" -> [kind |-> "Lit", value |-> n.value]
      [] n.kind = "Paren" -> [kind |-> "Paren", inner |-> AstTree(arena, n.inner)]
      [] n.kind = "BiOp" ->
           [kind |-> "BiOp", op |-> n.op, lhs |-> AstTree(arena, n.lhs),
            rhs |-> AstTree(arena, n.rhs)])

TLit(v) == [kind |-> "Lit", value |-> v]

TBiOp(op, l, r) == [kind |-> "BiOp", op |-> op, lhs |-> l, rhs |-> r]

RECURSIVE IrTree(_, _)
IrTree(arena, id) ==
  Let(arena[id], LAMBDA n :
    IF n.kind = "IntValue" THEN [kind |-> "IntValue", value |-> n.value]
    ELSE [kind |-> "Op", op |-> n.op,
          args |-> <<IrTree(arena, n.args[1]), IrTree(arena, n.args[2])>>])

RECURSIVE ErasedTree(_, _)
\* the IR tree the AST below id stands for: Paren erased, operators mapped,
\* operands in their order
ErasedTree(arena, id) ==
  Let(arena[id], LAMBDA n :
    CASE n.kind = "Lit" -> [kind |-> "IntValue", value |-> n.value]
      [] n.kind = "Paren" -> ErasedTree(arena, n.inner)
      [] n.kind = "BiOp" ->
           [kind |-> "Op",
            op |-> CASE n.op = "Add" -> "IAdd" [] n.op = "Sub" -> "ISub"
                     [] n.op = "Mul" -> "IMul" [] n.op = "Div" -> "IDiv",
            args |-> <<ErasedTree(arena, n.lhs), ErasedTree(arena, n.rhs)>>])

RECURSIVE AstReach(_, _)
\* the ids of the nodes below id, id among them
AstReach(arena, id) ==
  Let(arena[id], LAMBDA n :
    CASE n.kind = "Lit" -> {id}
      [] n.kind = "Paren" -> {id} \cup AstReach(arena, n.inner)
      [] n.kind = "BiOp" -> {id} \cup AstReach(arena, n.lhs) \cup AstReach(arena, n.rhs))

RECURSIVE IrReach(_, _)
IrReach(arena, id) ==
  Let(arena[id], LAMBDA n :
    IF n.kind = "IntValue" THEN {id}
    ELSE {id} \cup IrReach(arena, n.args[1]) \cup IrReach(arena, n.args[2]))

RECURSIVE StripParen(_, _, _)
\* the tree below id rebuilt in the arena out with its Paren nodes removed
StripParen(arena, out, id) ==
  Let(arena[id], LAMBDA n :
    CASE n.kind = "Lit" -> Alloc(out, n)
      [] n.kind = "Paren" -> StripParen(arena, out, n.inner)
      [] n.kind = "BiOp" ->
           Let(StripParen(arena, out, n.lhs), LAMBDA l :
             Let(StripParen(arena, l.arena, n.rhs), LAMBDA r :
               Alloc(r.arena, BiOp(n.op, l.id, r.id)))))

RECURSIVE ExprValue(_, _)
\* the value of the expression below id in signed 64-bit two's-complement
\* arithmetic, division rounding toward zero; def is FALSE where a division
\* has no defined result
ExprValue(arena, id) ==
  Let(arena[id], LAMBDA n :
    CASE n.kind = "Lit" -> [def |-> TRUE, val |-> n.value]
      [] n.kind = "Paren" -> ExprValue(arena, n.inner)
      [] n.kind = "BiOp" ->
           Let2(ExprValue(arena, n.lhs), ExprValue(arena, n.rhs), LAMBDA x, y :
             IF ~x.def \/ ~y.def \/ (n.op = "Div" /\ SDivUndefined(x.val, y.val))
             THEN [def |-> FALSE, val |-> Zero(I64Bytes)]
             ELSE [def |-> TRUE,
                   val |-> CASE n.op = "Add" -> IAdd(x.val, y.val)
                             [] n.op = "Sub" -> ISub(x.val, y.val)
                             [] n.op = "Mul" -> IMul(x.val, y.val)
                             [] n.op = "Div" -> SDiv(x.val, y.val)]))

\* the magnitude of a is below 2^24
IsSmall(a) == Let(Abs64(a), LAMBDA m : \A i \in 4..Len(m) : m[i] = 0)

\* a small i64 as an integer
ToInt(a) ==
  Let(Abs64(a), LAMBDA m :
    (IF IsNeg(a) THEN -1 ELSE 1) * (m[1] + 256 * m[2] + 65536 * m[3]))

AbsInt(x) == IF x < 0 THEN -x ELSE x

\* q is x / y rounded toward zero: the remainder is smaller than the divisor
\* and, unless zero, has the sign of the dividend
IsTruncQuot(x, y, q) ==
  LET r == x - q * y
  IN AbsInt(r) < AbsInt(y) /\ (r = 0 \/ (r < 0) = (x < 0))

SrcPrecedence == <<"1", "+", "2", "*", "3">>

SrcLeftAssoc == <<"1", "0", "-", "2", "-", "3">>

SrcMul == <<"6", "*", "7">>

SrcParens == <<"(", "(", "(", "6", "*", "7", ")", ")", ")">>

SrcDiv == <<"7", "/", "2">>

SrcNegDiv == <<"-", "7", "/", "2">>

SrcZeroMinusDiv == <<"(", "0", "-", "7", ")", "/", "2">>

StageOrder == <<"read", "parse", "lower", "codegen", "write", "link">>

IsPrefix(s, u) == Len(s) <= Len(u) /\ \A i \in 1..Len(s) : s[i] = u[i]

StartedStage(x) == \E i \in 1..Len(started) : started[i] = x

\* the text has no parentheses, and operators of both levels
MixesLevels(k) ==
  /\ \A i \in 1..Len(k) : k[i] \notin {"(", ")"}
  /\ \E i \in 1..Len(k) : k[i] \in AddOps
  /\ \E i \in 1..Len(k) : k[i] \in MulOps

\* the text is a op1 b op2 c, the two operators of one level
IsChain(k) ==
  /\ Len(k) = 5
  /\ k[1] = "n" /\ k[3] = "n" /\ k[5] = "n"
  /\ \/ k[2] \in AddOps /\ k[4] \in AddOps
     \/ k[2] \in MulOps /\ k[4] \in MulOps

\* ------------------------------------------------------------------ claims
\* C1: precedence.  In every tree parse returns no multiplicative BiOp has an
\* additive BiOp as a direct operand; a text without parentheses that mixes
\* + - with * / has an additive BiOp at its root and every multiplicative
\* BiOp below it; "1+2*3" parses to BiOp(Add, 1, BiOp(Mul, 2, 3)) and
\* evaluates to 7.
C1_Precedence ==
  Parsed =>
    /\ \A i \in 1..Len(ast.arena) :
         (IsBiOp(ast.arena, i) /\ ast.arena[i].op \in Multiplicative) =>
           \A c \in {ast.arena[i].lhs, ast.arena[i].rhs} :
             ~(IsBiOp(ast.arena, c) /\ ast.arena[c].op \in Additive)
    /\ MixesLevels(Kinds(source)) =>
         /\ IsBiOp(ast.arena, ast.root) /\ ast.arena[ast.root].op \in Additive
         /\ \A i \in 1..Len(ast.arena) :
              (IsBiOp(ast.arena, i) /\ ast.arena[i].op \in Multiplicative) =>
                i \in AstReach(ast.arena, ast.root) \ {ast.root}
    /\ source = SrcPrecedence =>
         /\ AstTree(ast.arena, ast.root) =
              TBiOp("Add", TLit(Small(1)), TBiOp("Mul", TLit(Small(2)), TLit(Small(3))))
         /\ prog.ran => ~prog.crashed /\ prog.value = Small(7)

C1_Witness == source = SrcPrecedence /\ prog.ran /\ prog.value = Small(7)

\* C2: left-associativity.  In every tree parse returns no BiOp has a BiOp of
\* its own level as its direct right operand; a text a op1 b op2 c with both
\* operators of one level parses to BiOp(op2, BiOp(op1, a, b), c); "10-2-3"
\* evaluates to 5.
C2_LeftAssoc ==
  Parsed =>
    /\ \A i \in 1..Len(ast.arena) :
         IsBiOp(ast.arena, i) =>
           ~(/\ IsBiOp(ast.arena, ast.arena[i].rhs)
             /\ LevelOf(ast.arena[ast.arena[i].rhs].op) = LevelOf(ast.arena[i].op))
    /\ IsChain(Kinds(source)) =>
         LET ts == Tokens(source)
         IN AstTree(ast.arena, ast.root) =
              TBiOp(OpOf(ts[4][1]),
                    TBiOp(OpOf(ts[2][1]), TLit(ParseI64(ts[1]).val),
                          TLit(ParseI64(ts[3]).val)),
                    TLit(ParseI64(ts[5]).val))
    /\ (source = SrcLeftAssoc /\ prog.ran) =>
         ~prog.crashed /\ prog.value = Small(5)

C2_Witness == source = SrcLeftAssoc /\ prog.ran /\ prog.value = Small(5)

\* C3: once parse is over for a text that does not match the grammar, compile
\* has returned the parse error and there is no tree.
C3_MalformedIsParseError ==
  (ParseDone /\ ~InGrammar(source)) => (result = Err("parse") /\ ast = NoTree)

\* C4: Paren is transparent to lowering.  The IR of a tree is the IR of the
\* same tree with its Paren nodes removed, arena and root alike; it has one
\* node for each Lit and BiOp below the root and none for a Paren; the IR of
\* "(((6*7)))" is that of "6*7".
C4_ParenTransparent ==
  Lowered =>
    /\ LET st == StripParen(ast.arena, <<>>, ast.root)
       IN generate(st.arena, st.id) = IrOk(ir.arena, ir.root)
    /\ Len(ir.arena) =
         Cardinality({i \in AstReach(ast.arena, ast.root) : ast.arena[i].kind # "Paren"})
    /\ source = SrcParens =>
         /\ ir.arena = <<IntValue(Small(6)), IntValue(Small(7)), Op("IMul", <<1, 2>>)>>
         /\ ir.root = 3
         /\ LET p == parse(SrcMul) IN generate(p.arena, p.root) = IrOk(ir.arena, ir.root)

C4_Witness ==
  /\ Lowered
  /\ source = SrcParens
  /\ \E i \in 1..Len(ast.arena) : ast.arena[i].kind = "Paren"

\* C5: a run of the executable whose expression has a defined value prints
\* "result: ", the decimal text of the 64-bit value, and a newline.
C5_PrintsValue ==
  (prog.ran /\ Parsed /\ ExprValue(ast.arena, ast.root).def) =>
    /\ ~prog.crashed
    /\ prog.stdout =
         <<"result: ">> \o DecS(ExprValue(ast.arena, ast.root).val) \o <<"\n">>

\* C6 as stated: "7/2" evaluates to 3, and "-7/2" is accepted and evaluates
\* to -3.
C6_NegativeLiteralDivides ==
  /\ (source = SrcDiv /\ prog.ran) => prog.value = Small(3)
  /\ (source = SrcNegDiv /\ ParseDone) => Parsed
  /\ (source = SrcNegDiv /\ prog.ran) => prog.value = Neg(Small(3))

\* C6 as amended: division rounds toward zero for both signs of the dividend.
\* "7/2" evaluates to 3 and "(0-7)/2" to -3; whenever the root of the tree is
\* a division of small operands by a nonzero divisor, the value computed is
\* the quotient rounded toward zero; "-7/2" is a parse error, the grammar
\* having no sign.
C6_TruncatingDivision ==
  /\ (source = SrcDiv /\ prog.ran) => ~prog.crashed /\ prog.value = Small(3)
  /\ (source = SrcZeroMinusDiv /\ prog.ran) =>
       ~prog.crashed /\ prog.value = Neg(Small(3))
  /\ (source = SrcNegDiv /\ ParseDone) => ~Parsed /\ result = Err("parse")
  /\ (prog.ran /\ Parsed /\ IsBiOp(ast.arena, ast.root)
        /\ ast.arena[ast.root].op = "Div") =>
       LET x == ExprValue(ast.arena, ast.arena[ast.root].lhs)
           y == ExprValue(ast.arena, ast.arena[ast.root].rhs)
       IN (x.def /\ y.def /\ IsSmall(x.val) /\ IsSmall(y.val) /\ ~IsZero(y.val)) =>
            /\ ~prog.crashed
            /\ IsSmall(prog.value)
            /\ IsTruncQuot(ToInt(x.val), ToInt(y.val), ToInt(prog.value))

C6_Witness ==
  /\ source = SrcZeroMinusDiv
  /\ prog.ran
  /\ prog.value = Neg(Small(3))

\* C7: parse is total: once it is over it has returned a tree or a parse error.
C7_ParseTotal == ParseDone => (Parsed \/ result = Err("parse"))

\* C8: the process exits with 0 and the success line on stdout when compile
\* succeeded, and with 1 and the failure lines on stderr when compile returned
\* an error.
C8_ExitCodes ==
  (pc = "exited" /\ argc >= 2) =>
    /\ result.kind = "ok" =>
         exitCode = 0 /\ stdout = <<"successfully compiled to <exe>">>
    /\ result.kind = "err" =>
         exitCode = 1 /\ stderr = <<"failed to compile:\n<" \o result.stage \o ">">>

\* C9: the stages start in the order read, parse, lower, codegen, write, link;
\* each starts only with what the one before it produced; the error compile
\* returns is that of the last stage started; after a parse or lowering error
\* there is no object file and no linker run, after a codegen or write error
\* no linker run; a panic ends the process in the parse stage.
C9_ShortCircuit ==
  /\ IsPrefix(started, StageOrder)
  /\ StartedStage("lower") => Parsed
  /\ StartedStage("codegen") => Lowered
  /\ StartedStage("write") => module.built
  /\ StartedStage("link") => objFile
  /\ result.kind = "err" =>
       /\ started # <<>>
       /\ result.stage = started[Len(started)]
       /\ pc \in {"report", "exited"}
  /\ result.kind = "ok" => started = StageOrder /\ exeFile
  /\ pc = "panicked" => started = <<"read", "parse">>
  /\ (result.kind = "err" /\ result.stage \in {"read", "parse", "lower"}) =>
       ~objFile /\ ~linkerRan /\ ~exeFile
  /\ (result.kind = "err" /\ result.stage \in {"codegen", "write"}) =>
       ~objFile /\ ~linkerRan /\ ~exeFile
  /\ (objFile \/ linkerRan \/ exeFile) => StartedStage("write")

C9_Witness ==
  /\ pc = "exited"
  /\ result = Err("parse")
  /\ started = <<"read", "parse">>
  /\ ~objFile

\* C10: lowering keeps the operands' order and the arena topologically
\* ordered.  The root is the last node allocated; each Op has two operands,
\* the left one allocated before the right one and both before the Op; every
\* node of the left operand's tree is allocated before every node of the right
\* one's; the IR tree is the AST with Paren erased and the operands of each
\* BiOp in their order.
C10_LoweringOrder ==
  Lowered =>
    /\ ir.root = Len(ir.arena)
    /\ \A i \in 1..Len(ir.arena) :
         ir.arena[i].kind = "Op" =>
           LET args == ir.arena[i].args
           IN /\ Len(args) = 2
              /\ args[1] < args[2] /\ args[2] < i
              /\ \A x \in IrReach(ir.arena, args[1]) :
                   \A y \in IrReach(ir.arena, args[2]) : x < y
    /\ IrTree(ir.arena, ir.root) = ErasedTree(ast.arena, ast.root)

C10_Witness ==
  /\ Lowered
  /\ \E i \in 1..Len(ir.arena) :
       /\ ir.arena[i].kind = "Op"
       /\ ir.arena[ir.arena[i].args[1]].kind = "Op"
       /\ ir.arena[ir.arena[i].args[2]].kind = "Op"
====
